---------------------------- MODULE Spec2Model ----------------------------
(***************************************************************************)
(* Model of scripts/index_xlsx_files.py: the release indexer.  main()      *)
(* pages through the releases of a repository (fetch_releases), turns the  *)
(* region releases into a mapping from region key to file metadata         *)
(* (scan_releases), aggregates it (create_summary_stats) and writes        *)
(* index.json.                                                             *)
(*                                                                         *)
(* Representation.  A Python str is a sequence of one-character strings,   *)
(* so that the regular expressions, str.replace, str.lower and the string  *)
(* order are computed character by character.  A value that may be None is *)
(* a sequence of length at most one: None is << >> and the value v is      *)
(* <<v>>.  A dict is a function; a key the dict lacks is outside DOMAIN.   *)
(***************************************************************************)
EXTENDS Integers, Sequences, FiniteSets, TLC

VARIABLES
    feed,        \* the releases the API holds, in the order it lists them
    pc,          \* where main() is
    page,        \* fetch_releases: the next page to request
    releases,    \* fetch_releases: the releases gathered so far
    requests,    \* every request sent so far, with what came back
    pos,         \* scan_releases: how many releases the loop has taken
    index_data,  \* scan_releases: region key -> region entry
    raised,      \* the exception that ended the run, None while there is none
    summary,     \* create_summary_stats' result, None before it
    index_json,  \* the content of index.json, None before it is written
    call         \* a single call of one function: its name, argument, result

vars == <<feed, pc, page, releases, requests, pos, index_data,
          raised, summary, index_json, call>>

-----------------------------------------------------------------------------
(* Python values *)

None == << >>
Some(v) == <<v>>
IsNone(o) == Len(o) = 0
Truthy(o) == Len(o) = 1 /\ o[1] # << >>

\* dict.get(key, default)
Get(d, key, default) == IF key \in DOMAIN d THEN d[key] ELSE default

-----------------------------------------------------------------------------
(* str *)

Ascii ==
    <<" ","!","\"","#","$","%","&","'","(",")","*","+",",","-",".","/",
      "0","1","2","3","4","5","6","7","8","9",":",";","<","=",">","?",
      "@","A","B","C","D","E","F","G","H","I","J","K","L","M","N","O",
      "P","Q","R","S","T","U","V","W","X","Y","Z","[","\\","]","^","_",
      "grave","a","b","c","d","e","f","g","h","i","j","k","l","m","n","o",
      "p","q","r","s","t","u","v","w","x","y","z","{","|","}","~">>

\* The code point of a character: what str comparison compares.  (Ascii[65]
\* stands for the grave accent, which no string of the model holds.)
Ord(c) ==
    IF c = "\t" THEN 9
    ELSE IF c = "\n" THEN 10
    ELSE 31 + (CHOOSE i \in 1..Len(Ascii) : Ascii[i] = c)

IsDigit(c) == c \in {"0","1","2","3","4","5","6","7","8","9"}
IsSpace(c) == c \in {" ", "\t", "\n", "\r", "\f"}
IsUpper(c) == Ord(c) >= 65 /\ Ord(c) <= 90
IsLower(c) == Ord(c) >= 97 /\ Ord(c) <= 122
IsAlpha(c) == IsUpper(c) \/ IsLower(c)
LowerChar(c) == IF IsUpper(c) THEN Ascii[Ord(c) - 31 + 32] ELSE c
UpperChar(c) == IF IsLower(c) THEN Ascii[Ord(c) - 31 - 32] ELSE c

\* str.lower()
Lower(s) == [i \in 1..Len(s) |-> LowerChar(s[i])]

\* str.title(): the first letter of every run of letters in upper case, the
\* other letters in lower case.
Title(s) ==
    [i \in 1..Len(s) |->
        IF i = 1 \/ ~IsAlpha(s[i-1]) THEN UpperChar(s[i]) ELSE LowerChar(s[i])]

\* s[from:] and s[:n]
From(s, from) == SubSeq(s, from, Len(s))
Prefix(s, n) == SubSeq(s, 1, IF n < Len(s) THEN n ELSE Len(s))

\* s.startswith(p) at offset i (1-based), s.endswith(p)
StartsAt(s, i, p) == i + Len(p) - 1 <= Len(s) /\ SubSeq(s, i, i + Len(p) - 1) = p
EndsWith(s, p) == Len(p) <= Len(s) /\ From(s, Len(s) - Len(p) + 1) = p

\* s.replace(old, new): every occurrence, leftmost first, not overlapping.
RECURSIVE Replace(_, _, _)
Replace(s, old, new) ==
    IF Len(s) < Len(old) THEN s
    ELSE IF StartsAt(s, 1, old)
         THEN new \o Replace(From(s, Len(old) + 1), old, new)
         ELSE <<s[1]>> \o Replace(Tail(s), old, new)

\* a < b for str: the first differing character decides, a proper prefix is less.
RECURSIVE StrLess(_, _)
StrLess(a, b) ==
    IF b = << >> THEN FALSE
    ELSE IF a = << >> THEN TRUE
    ELSE IF a[1] # b[1] THEN Ord(a[1]) < Ord(b[1])
    ELSE StrLess(Tail(a), Tail(b))

DigitValue(c) == Ord(c) - 48

\* int(s) of a string of decimal digits; int("") raises ValueError, which the
\* callers test for before they call this.
RECURSIVE ParseInt(_)
ParseInt(s) ==
    IF s = << >> THEN 0
    ELSE 10 * ParseInt(SubSeq(s, 1, Len(s) - 1)) + DigitValue(s[Len(s)])

\* The longest run of characters of `class` starting at s[i]: its length.
RECURSIVE RunLength(_, _, _)
RunLength(s, i, class) ==
    IF i > Len(s) \/ s[i] \notin class THEN 0
    ELSE 1 + RunLength(s, i + 1, class)

-----------------------------------------------------------------------------
(* The lookup tables: region token -> geographic path, as sets of           *)
(* <<key, value>> pairs.                                                    *)

US_STATES_TO_PATH ==
    {
    <<<<"a","l","a","b","a","m","a">>,
      <<"n","o","r","t","h","-","a","m","e","r","i","c","a","/","u","n","i","t","e","d","-","s","t","a","t","e","s","-","o","f","-","a","m","e","r","i","c","a","/","a","l","a","b","a","m","a">>>>,
    <<<<"a","l","a","s","k","a">>,
      <<"n","o","r","t","h","-","a","m","e","r","i","c","a","/","u","n","i","t","e","d","-","s","t","a","t","e","s","-","o","f","-","a","m","e","r","i","c","a","/","a","l","a","s","k","a">>>>,
    <<<<"a","r","i","z","o","n","a">>,
      <<"n","o","r","t","h","-","a","m","e","r","i","c","a","/","u","n","i","t","e","d","-","s","t","a","t","e","s","-","o","f","-","a","m","e","r","i","c","a","/","a","r","i","z","o","n","a">>>>,
    <<<<"a","r","k","a","n","s","a","s">>,
      <<"n","o","r","t","h","-","a","m","e","r","i","c","a","/","u","n","i","t","e","d","-","s","t","a","t","e","s","-","o","f","-","a","m","e","r","i","c","a","/","a","r","k","a","n","s","a","s">>>>,
    <<<<"c","a","l","i","f","o","r","n","i","a">>,
      <<"n","o","r","t","h","-","a","m","e","r","i","c","a","/","u","n","i","t","e","d","-","s","t","a","t","e","s","-","o","f","-","a","m","e","r","i","c","a","/","c","a","l","i","f","o","r","n","i","a">>>>,
    <<<<"c","o","l","o","r","a","d","o">>,
      <<"n","o","r","t","h","-","a","m","e","r","i","c","a","/","u","n","i","t","e","d","-","s","t","a","t","e","s","-","o","f","-","a","m","e","r","i","c","a","/","c","o","l","o","r","a","d","o">>>>,
    <<<<"c","o","n","n","e","c","t","i","c","u","t">>,
      <<"n","o","r","t","h","-","a","m","e","r","i","c","a","/","u","n","i","t","e","d","-","s","t","a","t","e","s","-","o","f","-","a","m","e","r","i","c","a","/","c","o","n","n","e","c","t","i","c","u","t">>>>,
    <<<<"d","e","l","a","w","a","r","e">>,
      <<"n","o","r","t","h","-","a","m","e","r","i","c","a","/","u","n","i","t","e","d","-","s","t","a","t","e","s","-","o","f","-","a","m","e","r","i","c","a","/","d","e","l","a","w","a","r","e">>>>,
    <<<<"d","i","s","t","r","i","c","t","-","o","f","-","c","o","l","u","m","b","i","a">>,
      <<"n","o","r","t","h","-","a","m","e","r","i","c","a","/","u","n","i","t","e","d","-","s","t","a","t","e","s","-","o","f","-","a","m","e","r","i","c","a","/","d","i","s","t","r","i","c","t","-","o","f","-","c","o","l","u","m","b","i","a">>>>,
    <<<<"f","l","o","r","i","d","a">>,
      <<"n","o","r","t","h","-","a","m","e","r","i","c","a","/","u","n","i","t","e","d","-","s","t","a","t","e","s","-","o","f","-","a","m","e","r","i","c","a","/","f","l","o","r","i","d","a">>>>,
    <<<<"g","e","o","r","g","i","a">>,
      <<"n","o","r","t","h","-","a","m","e","r","i","c","a","/","u","n","i","t","e","d","-","s","t","a","t","e","s","-","o","f","-","a","m","e","r","i","c","a","/","g","e","o","r","g","i","a">>>>,
    <<<<"h","a","w","a","i","i">>,
      <<"n","o","r","t","h","-","a","m","e","r","i","c","a","/","u","n","i","t","e","d","-","s","t","a","t","e","s","-","o","f","-","a","m","e","r","i","c","a","/","h","a","w","a","i","i">>>>,
    <<<<"i","d","a","h","o">>,
      <<"n","o","r","t","h","-","a","m","e","r","i","c","a","/","u","n","i","t","e","d","-","s","t","a","t","e","s","-","o","f","-","a","m","e","r","i","c","a","/","i","d","a","h","o">>>>,
    <<<<"i","l","l","i","n","o","i","s">>,
      <<"n","o","r","t","h","-","a","m","e","r","i","c","a","/","u","n","i","t","e","d","-","s","t","a","t","e","s","-","o","f","-","a","m","e","r","i","c","a","/","i","l","l","i","n","o","i","s">>>>,
    <<<<"i","n","d","i","a","n","a">>,
      <<"n","o","r","t","h","-","a","m","e","r","i","c","a","/","u","n","i","t","e","d","-","s","t","a","t","e","s","-","o","f","-","a","m","e","r","i","c","a","/","i","n","d","i","a","n","a">>>>,
    <<<<"i","o","w","a">>,
      <<"n","o","r","t","h","-","a","m","e","r","i","c","a","/","u","n","i","t","e","d","-","s","t","a","t","e","s","-","o","f","-","a","m","e","r","i","c","a","/","i","o","w","a">>>>,
    <<<<"k","a","n","s","a","s">>,
      <<"n","o","r","t","h","-","a","m","e","r","i","c","a","/","u","n","i","t","e","d","-","s","t","a","t","e","s","-","o","f","-","a","m","e","r","i","c","a","/","k","a","n","s","a","s">>>>,
    <<<<"k","e","n","t","u","c","k","y">>,
      <<"n","o","r","t","h","-","a","m","e","r","i","c","a","/","u","n","i","t","e","d","-","s","t","a","t","e","s","-","o","f","-","a","m","e","r","i","c","a","/","k","e","n","t","u","c","k","y">>>>,
    <<<<"l","o","u","i","s","i","a","n","a">>,
      <<"n","o","r","t","h","-","a","m","e","r","i","c","a","/","u","n","i","t","e","d","-","s","t","a","t","e","s","-","o","f","-","a","m","e","r","i","c","a","/","l","o","u","i","s","i","a","n","a">>>>,
    <<<<"m","a","i","n","e">>,
      <<"n","o","r","t","h","-","a","m","e","r","i","c","a","/","u","n","i","t","e","d","-","s","t","a","t","e","s","-","o","f","-","a","m","e","r","i","c","a","/","m","a","i","n","e">>>>,
    <<<<"m","a","r","y","l","a","n","d">>,
      <<"n","o","r","t","h","-","a","m","e","r","i","c","a","/","u","n","i","t","e","d","-","s","t","a","t","e","s","-","o","f","-","a","m","e","r","i","c","a","/","m","a","r","y","l","a","n","d">>>>,
    <<<<"m","a","s","s","a","c","h","u","s","e","t","t","s">>,
      <<"n","o","r","t","h","-","a","m","e","r","i","c","a","/","u","n","i","t","e","d","-","s","t","a","t","e","s","-","o","f","-","a","m","e","r","i","c","a","/","m","a","s","s","a","c","h","u","s","e","t","t","s">>>>,
    <<<<"m","i","c","h","i","g","a","n">>,
      <<"n","o","r","t","h","-","a","m","e","r","i","c","a","/","u","n","i","t","e","d","-","s","t","a","t","e","s","-","o","f","-","a","m","e","r","i","c","a","/","m","i","c","h","i","g","a","n">>>>,
    <<<<"m","i","n","n","e","s","o","t","a">>,
      <<"n","o","r","t","h","-","a","m","e","r","i","c","a","/","u","n","i","t","e","d","-","s","t","a","t","e","s","-","o","f","-","a","m","e","r","i","c","a","/","m","i","n","n","e","s","o","t","a">>>>,
    <<<<"m","i","s","s","i","s","s","i","p","p","i">>,
      <<"n","o","r","t","h","-","a","m","e","r","i","c","a","/","u","n","i","t","e","d","-","s","t","a","t","e","s","-","o","f","-","a","m","e","r","i","c","a","/","m","i","s","s","i","s","s","i","p","p","i">>>>,
    <<<<"m","i","s","s","o","u","r","i">>,
      <<"n","o","r","t","h","-","a","m","e","r","i","c","a","/","u","n","i","t","e","d","-","s","t","a","t","e","s","-","o","f","-","a","m","e","r","i","c","a","/","m","i","s","s","o","u","r","i">>>>,
    <<<<"m","o","n","t","a","n","a">>,
      <<"n","o","r","t","h","-","a","m","e","r","i","c","a","/","u","n","i","t","e","d","-","s","t","a","t","e","s","-","o","f","-","a","m","e","r","i","c","a","/","m","o","n","t","a","n","a">>>>,
    <<<<"n","e","b","r","a","s","k","a">>,
      <<"n","o","r","t","h","-","a","m","e","r","i","c","a","/","u","n","i","t","e","d","-","s","t","a","t","e","s","-","o","f","-","a","m","e","r","i","c","a","/","n","e","b","r","a","s","k","a">>>>,
    <<<<"n","e","v","a","d","a">>,
      <<"n","o","r","t","h","-","a","m","e","r","i","c","a","/","u","n","i","t","e","d","-","s","t","a","t","e","s","-","o","f","-","a","m","e","r","i","c","a","/","n","e","v","a","d","a">>>>,
    <<<<"n","e","w","-","h","a","m","p","s","h","i","r","e">>,
      <<"n","o","r","t","h","-","a","m","e","r","i","c","a","/","u","n","i","t","e","d","-","s","t","a","t","e","s","-","o","f","-","a","m","e","r","i","c","a","/","n","e","w","-","h","a","m","p","s","h","i","r","e">>>>,
    <<<<"n","e","w","-","j","e","r","s","e","y">>,
      <<"n","o","r","t","h","-","a","m","e","r","i","c","a","/","u","n","i","t","e","d","-","s","t","a","t","e","s","-","o","f","-","a","m","e","r","i","c","a","/","n","e","w","-","j","e","r","s","e","y">>>>,
    <<<<"n","e","w","-","m","e","x","i","c","o">>,
      <<"n","o","r","t","h","-","a","m","e","r","i","c","a","/","u","n","i","t","e","d","-","s","t","a","t","e","s","-","o","f","-","a","m","e","r","i","c","a","/","n","e","w","-","m","e","x","i","c","o">>>>,
    <<<<"n","e","w","-","y","o","r","k">>,
      <<"n","o","r","t","h","-","a","m","e","r","i","c","a","/","u","n","i","t","e","d","-","s","t","a","t","e","s","-","o","f","-","a","m","e","r","i","c","a","/","n","e","w","-","y","o","r","k">>>>,
    <<<<"n","o","r","t","h","-","c","a","r","o","l","i","n","a">>,
      <<"n","o","r","t","h","-","a","m","e","r","i","c","a","/","u","n","i","t","e","d","-","s","t","a","t","e","s","-","o","f","-","a","m","e","r","i","c","a","/","n","o","r","t","h","-","c","a","r","o","l","i","n","a">>>>,
    <<<<"n","o","r","t","h","-","d","a","k","o","t","a">>,
      <<"n","o","r","t","h","-","a","m","e","r","i","c","a","/","u","n","i","t","e","d","-","s","t","a","t","e","s","-","o","f","-","a","m","e","r","i","c","a","/","n","o","r","t","h","-","d","a","k","o","t","a">>>>,
    <<<<"o","h","i","o">>,
      <<"n","o","r","t","h","-","a","m","e","r","i","c","a","/","u","n","i","t","e","d","-","s","t","a","t","e","s","-","o","f","-","a","m","e","r","i","c","a","/","o","h","i","o">>>>,
    <<<<"o","k","l","a","h","o","m","a">>,
      <<"n","o","r","t","h","-","a","m","e","r","i","c","a","/","u","n","i","t","e","d","-","s","t","a","t","e","s","-","o","f","-","a","m","e","r","i","c","a","/","o","k","l","a","h","o","m","a">>>>,
    <<<<"o","r","e","g","o","n">>,
      <<"n","o","r","t","h","-","a","m","e","r","i","c","a","/","u","n","i","t","e","d","-","s","t","a","t","e","s","-","o","f","-","a","m","e","r","i","c","a","/","o","r","e","g","o","n">>>>,
    <<<<"p","e","n","n","s","y","l","v","a","n","i","a">>,
      <<"n","o","r","t","h","-","a","m","e","r","i","c","a","/","u","n","i","t","e","d","-","s","t","a","t","e","s","-","o","f","-","a","m","e","r","i","c","a","/","p","e","n","n","s","y","l","v","a","n","i","a">>>>,
    <<<<"r","h","o","d","e","-","i","s","l","a","n","d">>,
      <<"n","o","r","t","h","-","a","m","e","r","i","c","a","/","u","n","i","t","e","d","-","s","t","a","t","e","s","-","o","f","-","a","m","e","r","i","c","a","/","r","h","o","d","e","-","i","s","l","a","n","d">>>>,
    <<<<"s","o","u","t","h","-","c","a","r","o","l","i","n","a">>,
      <<"n","o","r","t","h","-","a","m","e","r","i","c","a","/","u","n","i","t","e","d","-","s","t","a","t","e","s","-","o","f","-","a","m","e","r","i","c","a","/","s","o","u","t","h","-","c","a","r","o","l","i","n","a">>>>,
    <<<<"s","o","u","t","h","-","d","a","k","o","t","a">>,
      <<"n","o","r","t","h","-","a","m","e","r","i","c","a","/","u","n","i","t","e","d","-","s","t","a","t","e","s","-","o","f","-","a","m","e","r","i","c","a","/","s","o","u","t","h","-","d","a","k","o","t","a">>>>,
    <<<<"t","e","n","n","e","s","s","e","e">>,
      <<"n","o","r","t","h","-","a","m","e","r","i","c","a","/","u","n","i","t","e","d","-","s","t","a","t","e","s","-","o","f","-","a","m","e","r","i","c","a","/","t","e","n","n","e","s","s","e","e">>>>,
    <<<<"t","e","x","a","s">>,
      <<"n","o","r","t","h","-","a","m","e","r","i","c","a","/","u","n","i","t","e","d","-","s","t","a","t","e","s","-","o","f","-","a","m","e","r","i","c","a","/","t","e","x","a","s">>>>,
    <<<<"u","t","a","h">>,
      <<"n","o","r","t","h","-","a","m","e","r","i","c","a","/","u","n","i","t","e","d","-","s","t","a","t","e","s","-","o","f","-","a","m","e","r","i","c","a","/","u","t","a","h">>>>,
    <<<<"v","e","r","m","o","n","t">>,
      <<"n","o","r","t","h","-","a","m","e","r","i","c","a","/","u","n","i","t","e","d","-","s","t","a","t","e","s","-","o","f","-","a","m","e","r","i","c","a","/","v","e","r","m","o","n","t">>>>,
    <<<<"v","i","r","g","i","n","i","a">>,
      <<"n","o","r","t","h","-","a","m","e","r","i","c","a","/","u","n","i","t","e","d","-","s","t","a","t","e","s","-","o","f","-","a","m","e","r","i","c","a","/","v","i","r","g","i","n","i","a">>>>,
    <<<<"w","a","s","h","i","n","g","t","o","n">>,
      <<"n","o","r","t","h","-","a","m","e","r","i","c","a","/","u","n","i","t","e","d","-","s","t","a","t","e","s","-","o","f","-","a","m","e","r","i","c","a","/","w","a","s","h","i","n","g","t","o","n">>>>,
    <<<<"w","e","s","t","-","v","i","r","g","i","n","i","a">>,
      <<"n","o","r","t","h","-","a","m","e","r","i","c","a","/","u","n","i","t","e","d","-","s","t","a","t","e","s","-","o","f","-","a","m","e","r","i","c","a","/","w","e","s","t","-","v","i","r","g","i","n","i","a">>>>,
    <<<<"w","i","s","c","o","n","s","i","n">>,
      <<"n","o","r","t","h","-","a","m","e","r","i","c","a","/","u","n","i","t","e","d","-","s","t","a","t","e","s","-","o","f","-","a","m","e","r","i","c","a","/","w","i","s","c","o","n","s","i","n">>>>,
    <<<<"w","y","o","m","i","n","g">>,
      <<"n","o","r","t","h","-","a","m","e","r","i","c","a","/","u","n","i","t","e","d","-","s","t","a","t","e","s","-","o","f","-","a","m","e","r","i","c","a","/","w","y","o","m","i","n","g">>>>,
    <<<<"p","u","e","r","t","o","-","r","i","c","o">>,
      <<"n","o","r","t","h","-","a","m","e","r","i","c","a","/","u","n","i","t","e","d","-","s","t","a","t","e","s","-","o","f","-","a","m","e","r","i","c","a","/","p","u","e","r","t","o","-","r","i","c","o">>>>,
    <<<<"u","s","-","v","i","r","g","i","n","-","i","s","l","a","n","d","s">>,
      <<"n","o","r","t","h","-","a","m","e","r","i","c","a","/","u","n","i","t","e","d","-","s","t","a","t","e","s","-","o","f","-","a","m","e","r","i","c","a","/","u","s","-","v","i","r","g","i","n","-","i","s","l","a","n","d","s">>>> }

EUROPE_COUNTRIES_TO_PATH ==
    {
    <<<<"a","l","b","a","n","i","a">>,
      <<"e","u","r","o","p","e","/","a","l","b","a","n","i","a">>>>,
    <<<<"a","n","d","o","r","r","a">>,
      <<"e","u","r","o","p","e","/","a","n","d","o","r","r","a">>>>,
    <<<<"a","u","s","t","r","i","a">>,
      <<"e","u","r","o","p","e","/","a","u","s","t","r","i","a">>>>,
    <<<<"a","z","o","r","e","s">>,
      <<"e","u","r","o","p","e","/","a","z","o","r","e","s">>>>,
    <<<<"b","e","l","a","r","u","s">>,
      <<"e","u","r","o","p","e","/","b","e","l","a","r","u","s">>>>,
    <<<<"b","e","l","g","i","u","m">>,
      <<"e","u","r","o","p","e","/","b","e","l","g","i","u","m">>>>,
    <<<<"b","o","s","n","i","a","-","h","e","r","z","e","g","o","v","i","n","a">>,
      <<"e","u","r","o","p","e","/","b","o","s","n","i","a","-","h","e","r","z","e","g","o","v","i","n","a">>>>,
    <<<<"b","u","l","g","a","r","i","a">>,
      <<"e","u","r","o","p","e","/","b","u","l","g","a","r","i","a">>>>,
    <<<<"c","r","o","a","t","i","a">>,
      <<"e","u","r","o","p","e","/","c","r","o","a","t","i","a">>>>,
    <<<<"c","y","p","r","u","s">>,
      <<"e","u","r","o","p","e","/","c","y","p","r","u","s">>>>,
    <<<<"c","z","e","c","h","-","r","e","p","u","b","l","i","c">>,
      <<"e","u","r","o","p","e","/","c","z","e","c","h","-","r","e","p","u","b","l","i","c">>>>,
    <<<<"d","e","n","m","a","r","k">>,
      <<"e","u","r","o","p","e","/","d","e","n","m","a","r","k">>>>,
    <<<<"e","s","t","o","n","i","a">>,
      <<"e","u","r","o","p","e","/","e","s","t","o","n","i","a">>>>,
    <<<<"f","a","r","o","e","-","i","s","l","a","n","d","s">>,
      <<"e","u","r","o","p","e","/","f","a","r","o","e","-","i","s","l","a","n","d","s">>>>,
    <<<<"f","i","n","l","a","n","d">>,
      <<"e","u","r","o","p","e","/","f","i","n","l","a","n","d">>>>,
    <<<<"f","r","a","n","c","e">>,
      <<"e","u","r","o","p","e","/","f","r","a","n","c","e">>>>,
    <<<<"g","e","o","r","g","i","a">>,
      <<"e","u","r","o","p","e","/","g","e","o","r","g","i","a">>>>,
    <<<<"g","e","r","m","a","n","y">>,
      <<"e","u","r","o","p","e","/","g","e","r","m","a","n","y">>>>,
    <<<<"g","r","e","a","t","-","b","r","i","t","a","i","n">>,
      <<"e","u","r","o","p","e","/","g","r","e","a","t","-","b","r","i","t","a","i","n">>>>,
    <<<<"g","r","e","e","c","e">>,
      <<"e","u","r","o","p","e","/","g","r","e","e","c","e">>>>,
    <<<<"h","u","n","g","a","r","y">>,
      <<"e","u","r","o","p","e","/","h","u","n","g","a","r","y">>>>,
    <<<<"i","c","e","l","a","n","d">>,
      <<"e","u","r","o","p","e","/","i","c","e","l","a","n","d">>>>,
    <<<<"i","r","e","l","a","n","d","-","a","n","d","-","n","o","r","t","h","e","r","n","-","i","r","e","l","a","n","d">>,
      <<"e","u","r","o","p","e","/","i","r","e","l","a","n","d","-","a","n","d","-","n","o","r","t","h","e","r","n","-","i","r","e","l","a","n","d">>>>,
    <<<<"i","s","l","e","-","o","f","-","m","a","n">>,
      <<"e","u","r","o","p","e","/","i","s","l","e","-","o","f","-","m","a","n">>>>,
    <<<<"i","t","a","l","y">>,
      <<"e","u","r","o","p","e","/","i","t","a","l","y">>>>,
    <<<<"k","o","s","o","v","o">>,
      <<"e","u","r","o","p","e","/","k","o","s","o","v","o">>>>,
    <<<<"l","a","t","v","i","a">>,
      <<"e","u","r","o","p","e","/","l","a","t","v","i","a">>>>,
    <<<<"l","i","e","c","h","t","e","n","s","t","e","i","n">>,
      <<"e","u","r","o","p","e","/","l","i","e","c","h","t","e","n","s","t","e","i","n">>>>,
    <<<<"l","i","t","h","u","a","n","i","a">>,
      <<"e","u","r","o","p","e","/","l","i","t","h","u","a","n","i","a">>>>,
    <<<<"l","u","x","e","m","b","o","u","r","g">>,
      <<"e","u","r","o","p","e","/","l","u","x","e","m","b","o","u","r","g">>>>,
    <<<<"m","a","c","e","d","o","n","i","a">>,
      <<"e","u","r","o","p","e","/","m","a","c","e","d","o","n","i","a">>>>,
    <<<<"m","a","l","t","a">>,
      <<"e","u","r","o","p","e","/","m","a","l","t","a">>>>,
    <<<<"m","o","l","d","o","v","a">>,
      <<"e","u","r","o","p","e","/","m","o","l","d","o","v","a">>>>,
    <<<<"m","o","n","a","c","o">>,
      <<"e","u","r","o","p","e","/","m","o","n","a","c","o">>>>,
    <<<<"m","o","n","t","e","n","e","g","r","o">>,
      <<"e","u","r","o","p","e","/","m","o","n","t","e","n","e","g","r","o">>>>,
    <<<<"n","e","t","h","e","r","l","a","n","d","s">>,
      <<"e","u","r","o","p","e","/","n","e","t","h","e","r","l","a","n","d","s">>>>,
    <<<<"n","o","r","w","a","y">>,
      <<"e","u","r","o","p","e","/","n","o","r","w","a","y">>>>,
    <<<<"p","o","l","a","n","d">>,
      <<"e","u","r","o","p","e","/","p","o","l","a","n","d">>>>,
    <<<<"p","o","r","t","u","g","a","l">>,
      <<"e","u","r","o","p","e","/","p","o","r","t","u","g","a","l">>>>,
    <<<<"r","o","m","a","n","i","a">>,
      <<"e","u","r","o","p","e","/","r","o","m","a","n","i","a">>>>,
    <<<<"r","u","s","s","i","a">>,
      <<"e","u","r","o","p","e","/","r","u","s","s","i","a">>>>,
    <<<<"s","e","r","b","i","a">>,
      <<"e","u","r","o","p","e","/","s","e","r","b","i","a">>>>,
    <<<<"s","l","o","v","a","k","i","a">>,
      <<"e","u","r","o","p","e","/","s","l","o","v","a","k","i","a">>>>,
    <<<<"s","l","o","v","e","n","i","a">>,
      <<"e","u","r","o","p","e","/","s","l","o","v","e","n","i","a">>>>,
    <<<<"s","p","a","i","n">>,
      <<"e","u","r","o","p","e","/","s","p","a","i","n">>>>,
    <<<<"s","w","e","d","e","n">>,
      <<"e","u","r","o","p","e","/","s","w","e","d","e","n">>>>,
    <<<<"s","w","i","t","z","e","r","l","a","n","d">>,
      <<"e","u","r","o","p","e","/","s","w","i","t","z","e","r","l","a","n","d">>>>,
    <<<<"t","u","r","k","e","y">>,
      <<"e","u","r","o","p","e","/","t","u","r","k","e","y">>>>,
    <<<<"u","k","r","a","i","n","e">>,
      <<"e","u","r","o","p","e","/","u","k","r","a","i","n","e">>>> }

OTHER_REGIONS_TO_PATH ==
    {
    <<<<"c","a","n","a","d","a">>,
      <<"n","o","r","t","h","-","a","m","e","r","i","c","a","/","c","a","n","a","d","a">>>>,
    <<<<"a","l","b","e","r","t","a">>,
      <<"n","o","r","t","h","-","a","m","e","r","i","c","a","/","c","a","n","a","d","a","/","a","l","b","e","r","t","a">>>>,
    <<<<"b","r","i","t","i","s","h","-","c","o","l","u","m","b","i","a">>,
      <<"n","o","r","t","h","-","a","m","e","r","i","c","a","/","c","a","n","a","d","a","/","b","r","i","t","i","s","h","-","c","o","l","u","m","b","i","a">>>>,
    <<<<"o","n","t","a","r","i","o">>,
      <<"n","o","r","t","h","-","a","m","e","r","i","c","a","/","c","a","n","a","d","a","/","o","n","t","a","r","i","o">>>>,
    <<<<"q","u","e","b","e","c">>,
      <<"n","o","r","t","h","-","a","m","e","r","i","c","a","/","c","a","n","a","d","a","/","q","u","e","b","e","c">>>>,
    <<<<"a","u","s","t","r","a","l","i","a">>,
      <<"o","c","e","a","n","i","a","/","a","u","s","t","r","a","l","i","a">>>>,
    <<<<"n","e","w","-","z","e","a","l","a","n","d">>,
      <<"o","c","e","a","n","i","a","/","n","e","w","-","z","e","a","l","a","n","d">>>>,
    <<<<"j","a","p","a","n">>,
      <<"a","s","i","a","/","j","a","p","a","n">>>>,
    <<<<"b","r","a","z","i","l">>,
      <<"s","o","u","t","h","-","a","m","e","r","i","c","a","/","b","r","a","z","i","l">>>>,
    <<<<"a","r","g","e","n","t","i","n","a">>,
      <<"s","o","u","t","h","-","a","m","e","r","i","c","a","/","a","r","g","e","n","t","i","n","a">>>>,
    <<<<"c","h","i","l","e">>,
      <<"s","o","u","t","h","-","a","m","e","r","i","c","a","/","c","h","i","l","e">>>>,
    <<<<"c","o","l","o","m","b","i","a">>,
      <<"s","o","u","t","h","-","a","m","e","r","i","c","a","/","c","o","l","o","m","b","i","a">>>> }

\* key in table, table[key]
InTable(table, key) == \E e \in table : e[1] = key
Lookup(table, key) == (CHOOSE e \in table : e[1] = key)[2]

\* The tables looked up in another order: the European countries first.
GetRegionPathEuropeFirst(tag_region) ==
    LET tag_lower == Lower(tag_region) IN
    IF InTable(EUROPE_COUNTRIES_TO_PATH, tag_lower)
    THEN Lookup(EUROPE_COUNTRIES_TO_PATH, tag_lower)
    ELSE IF InTable(US_STATES_TO_PATH, tag_lower) THEN Lookup(US_STATES_TO_PATH, tag_lower)
    ELSE IF InTable(OTHER_REGIONS_TO_PATH, tag_lower)
         THEN Lookup(OTHER_REGIONS_TO_PATH, tag_lower)
    ELSE tag_lower

get_region_path(tag_region) ==
    LET tag_lower == Lower(tag_region) IN
    IF InTable(US_STATES_TO_PATH, tag_lower) THEN Lookup(US_STATES_TO_PATH, tag_lower)
    ELSE IF InTable(EUROPE_COUNTRIES_TO_PATH, tag_lower)
         THEN Lookup(EUROPE_COUNTRIES_TO_PATH, tag_lower)
    ELSE IF InTable(OTHER_REGIONS_TO_PATH, tag_lower)
         THEN Lookup(OTHER_REGIONS_TO_PATH, tag_lower)
    ELSE tag_lower

-----------------------------------------------------------------------------
(* The parsers *)

\* Where `$` matches in s, as the length of what precedes it: at the end, and
\* before a newline that ends the string.
DollarEnds(s) ==
    {Len(s)} \cup (IF s # << >> /\ s[Len(s)] = "\n" THEN {Len(s) - 1} ELSE {})

\* `.+` matches s: at least one character, none of them a newline.
IsDotPlus(s) == s # << >> /\ \A i \in 1..Len(s) : s[i] # "\n"

\* \d+\.\d+\.\d+ matches the whole of s.
IsVersion(s) ==
    \E i, j \in 1..Len(s) :
        /\ 1 < i /\ i + 1 < j /\ j < Len(s)
        /\ s[i] = "." /\ s[j] = "."
        /\ \A k \in (1..Len(s)) \ {i, j} : IsDigit(s[k])

\* re.match(r'^(.+?)-v(\d+\.\d+\.\d+)$', tag_name): the lengths k of group 1
\* with which the pattern matches; `.+?` takes the least.
TagMatches(tag_name) ==
    {k \in 1..Len(tag_name) :
        /\ IsDotPlus(Prefix(tag_name, k))
        /\ StartsAt(tag_name, k + 1, <<"-","v">>)
        /\ \E e \in DollarEnds(tag_name) : IsVersion(SubSeq(tag_name, k + 3, e))}

Least(S) == CHOOSE k \in S : \A j \in S : k <= j

extract_region_from_tag(tag_name) ==
    IF TagMatches(tag_name) = {} THEN <<None, None>>
    ELSE LET k == Least(TagMatches(tag_name))
             e == CHOOSE e \in DollarEnds(tag_name) :
                      IsVersion(SubSeq(tag_name, k + 3, e))
         IN  <<Some(Prefix(tag_name, k)), Some(SubSeq(tag_name, k + 3, e))>>

\* re.match(r'^(.+?)_climbs', filename)
FilenameMatches(filename) ==
    {k \in 1..Len(filename) :
        IsDotPlus(Prefix(filename, k)) /\ StartsAt(filename, k + 1, <<"_","c","l","i","m","b","s">>)}

extract_region_from_filename(filename) ==
    IF FilenameMatches(filename) = {} THEN None
    ELSE Some(Prefix(filename, Least(FilenameMatches(filename))))

\* re.search(label \s* ([class]+), body): group 1 of the leftmost match, None
\* when there is none.  \s* and [class]+ are greedy and share no character.
SearchCount(body, label, class) ==
    LET GroupAt(i) == i + Len(label) + RunLength(body, i + Len(label), {" ", "\t", "\n", "\r", "\f"})
        hits == {i \in 1..Len(body) :
                    StartsAt(body, i, label) /\ RunLength(body, GroupAt(i), class) >= 1}
    IN  IF hits = {} THEN None
        ELSE LET g == GroupAt(Least(hits))
             IN  Some(SubSeq(body, g, g + RunLength(body, g, class) - 1))

DigitChars == {"0","1","2","3","4","5","6","7","8","9"}

\* The result of a function that may raise: the exception's type or None, and
\* the value returned when nothing is raised.
Returned(v) == [raised |-> None, value |-> v]
Raised(type) == [raised |-> Some(type), value |-> None]

\* int(match.group(1).replace(',', ''))
IntOfGroup(group) ==
    LET digits == Replace(group, <<",">>, <<>>) IN
    IF digits = << >> THEN Raised("ValueError") ELSE Returned(Some(ParseInt(digits)))

\* body is None: re.search raises TypeError.
extract_climb_count_from_release_body(body) ==
    IF IsNone(body) THEN Raised("TypeError")
    ELSE LET old == SearchCount(body[1], <<"*","*","C","l","i","m","b"," ","C","o","u","n","t",":","*","*">>, DigitChars \cup {","})
             new == SearchCount(body[1], <<"*"," ","C","l","i","m","b","s",":">>, DigitChars \cup {","})
         IN  IF ~IsNone(old) THEN IntOfGroup(old[1])
             ELSE IF ~IsNone(new) THEN IntOfGroup(new[1])
             ELSE Returned(None)

extract_elevation_errors_from_release_body(body) ==
    IF IsNone(body) THEN Raised("TypeError")
    ELSE LET m == SearchCount(body[1], <<"*","*","E","l","e","v","a","t","i","o","n"," ","E","r","r","o","r","s",":","*","*">>, DigitChars)
         IN  IF ~IsNone(m) THEN Returned(Some(ParseInt(m[1]))) ELSE Returned(None)

-----------------------------------------------------------------------------
(* scan_releases: one iteration of the loop over the releases *)

\* The locals of the asset loop before the first asset.
NoAssetsYet ==
    [xlsx_files |-> << >>, xlsx_sizes |-> << >>, xlsx_urls |-> << >>,
     sqlite_file |-> None, sqlite_size |-> 0, sqlite_url |-> None,
     region_name |-> None]

\* if not region_name: region_name = extract_region_from_filename(name)
NameFrom(region_name, name) ==
    IF Truthy(region_name) THEN region_name ELSE extract_region_from_filename(name)

TakeXlsx(acc, asset) ==
    [acc EXCEPT !.xlsx_files = Append(@, asset.name),
                !.xlsx_sizes = Append(@, asset.size),
                !.xlsx_urls = Append(@, asset.browser_download_url),
                !.region_name = NameFrom(@, asset.name)]

\* The database slot filled once only: the first database asset kept.
TakeSqliteFirstWins(acc, asset) ==
    IF Truthy(acc.sqlite_file) THEN acc
    ELSE [acc EXCEPT !.sqlite_file = Some(asset.name),
                     !.sqlite_size = asset.size,
                     !.sqlite_url = Some(asset.browser_download_url),
                     !.region_name = NameFrom(@, asset.name)]

TakeSqlite(acc, asset) ==
    [acc EXCEPT !.sqlite_file = Some(asset.name),
                !.sqlite_size = asset.size,
                !.sqlite_url = Some(asset.browser_download_url),
                !.region_name = NameFrom(@, asset.name)]

\* for asset in assets: ...
RECURSIVE AssetLoop(_, _)
AssetLoop(assets, acc) ==
    IF assets = << >> THEN acc
    ELSE LET asset == Head(assets)
             next == IF EndsWith(asset.name, <<".","x","l","s","x">>) THEN TakeXlsx(acc, asset)
                     ELSE IF EndsWith(asset.name, <<".","s","q","l","i","t","e">>) THEN TakeSqlite(acc, asset)
                     ELSE acc
         IN  AssetLoop(Tail(assets), next)

\* The loop without the test for a release that has no files.
NoFilesFoundNeverSkips(acc) == FALSE

\* if not xlsx_files and not sqlite_file: continue
NoFilesFound(acc) == acc.xlsx_files = << >> /\ ~Truthy(acc.sqlite_file)

\* re.search(r'-(\d+)\.xlsx$', name): group 1 as an int, 0 when no match.
SplitMatch(name) ==
    {e \in DollarEnds(name) :
        /\ EndsWith(Prefix(name, e), <<".","x","l","s","x">>)
        /\ \E d \in 1..(e - 5) :
              /\ \A i \in (e - 4 - d)..(e - 5) : IsDigit(name[i])
              /\ e - 5 - d >= 1 /\ name[e - 5 - d] = "-"}

SplitIndex(name) ==
    IF SplitMatch(name) = {} THEN 0
    ELSE LET e == CHOOSE e \in SplitMatch(name) : TRUE
             d == CHOOSE d \in 1..(e - 5) :
                      /\ \A i \in (e - 4 - d)..(e - 5) : IsDigit(name[i])
                      /\ e - 5 - d >= 1 /\ name[e - 5 - d] = "-"
         IN  ParseInt(SubSeq(name, e - 4 - d, e - 5))

\* The key the files are sorted by.
SortKey(name) ==
    <<Replace(Replace(name, <<"-","1",".","x","l","s","x">>, <<".","x","l","s","x">>), <<"-","2",".","x","l","s","x">>, <<".","x","l","s","x">>),
      SplitIndex(name)>>

\* a < b for the (str, int) tuples of SortKey.
KeyLess(a, b) == StrLess(a[1], b[1]) \/ (a[1] = b[1] /\ a[2] < b[2])

\* sorted(range(len(files)), key=...): the indices in key order, equal keys in
\* their original order (sorted is stable).
RECURSIVE InsertIndex(_, _, _)
InsertIndex(sortedIdx, i, files) ==
    IF sortedIdx = << >> THEN <<i>>
    ELSE IF KeyLess(SortKey(files[i]), SortKey(files[sortedIdx[Len(sortedIdx)]]))
         THEN Append(InsertIndex(SubSeq(sortedIdx, 1, Len(sortedIdx) - 1), i, files),
                     sortedIdx[Len(sortedIdx)])
         ELSE Append(sortedIdx, i)

RECURSIVE SortedIndices(_, _)
SortedIndices(files, n) ==
    IF n = 0 THEN << >> ELSE InsertIndex(SortedIndices(files, n - 1), n, files)

Permute(xs, idx) == [i \in 1..Len(idx) |-> xs[idx[i]]]

\* if xlsx_files: sort the three parallel lists by the files' keys.
SortXlsx(acc) ==
    LET sorted_indices == SortedIndices(acc.xlsx_files, Len(acc.xlsx_files)) IN
    [acc EXCEPT !.xlsx_files = Permute(@, sorted_indices),
                !.xlsx_sizes = Permute(@, sorted_indices),
                !.xlsx_urls = Permute(@, sorted_indices)]

RECURSIVE Sum(_)
Sum(xs) == IF xs = << >> THEN 0 ELSE Head(xs) + Sum(Tail(xs))

\* has_split_files = len(xlsx_files) > 1
HasSplitFiles(xlsx_files) == Len(xlsx_files) > 1

\* The region entry built from the locals.  The values create_summary_stats
\* reads with dict.get are held as Some(v), as they may be None there.
RegionEntry(tag_name, region_from_tag, version, release_url, published_at, climb_count, elevation_errors, acc) ==
    LET region_name == IF Truthy(acc.region_name) THEN acc.region_name[1]
                       ELSE Title(Replace(region_from_tag, <<"-">>, <<"_">>))
    IN  [region_name |-> Replace(region_name, <<"_">>, <<" ">>),
         version |-> version,
         release_tag |-> tag_name,
         release_url |-> release_url,
         climb_count |-> climb_count,
         elevation_errors |-> elevation_errors,
         files |-> acc.xlsx_files,
         download_urls |-> acc.xlsx_urls,
         file_sizes |-> acc.xlsx_sizes,
         total_size |-> Some(Sum(acc.xlsx_sizes)),
         file_count |-> Some(Len(acc.xlsx_files)),
         has_split_files |-> HasSplitFiles(acc.xlsx_files),
         database_file |-> acc.sqlite_file,
         database_size |-> Some(acc.sqlite_size),
         database_url |-> acc.sqlite_url,
         published_at |-> published_at,
         last_updated |-> IF Truthy(published_at) THEN Some(Prefix(published_at[1], 10))
                          ELSE None]

\* A store that keeps the entry a key already has.
StoreKeepsFirst(data, region_key, entry) ==
    IF region_key \in DOMAIN data THEN data
    ELSE [k \in DOMAIN data \cup {region_key} |-> IF k = region_key THEN entry ELSE data[k]]

\* index_data[region_key] = entry
Store(data, region_key, entry) ==
    [k \in DOMAIN data \cup {region_key} |-> IF k = region_key THEN entry ELSE data[k]]

\* The body of `for release in releases`, from the mapping before it: the
\* mapping after it, or the exception it raises.
ScanRelease(data, release) ==
    LET tag_name == Get(release, "tag_name", <<>>)
        tag == extract_region_from_tag(tag_name)
        region_from_tag == tag[1]
        version == tag[2]
    IN
    IF ~Truthy(region_from_tag) THEN Returned(data)
    ELSE
    LET release_url == Get(release, "html_url", <<>>)
        published_at == Get(release, "published_at", Some(<<>>))
        release_body == Get(release, "body", Some(<<>>))
        climb_count == extract_climb_count_from_release_body(release_body)
        elevation_errors == extract_elevation_errors_from_release_body(release_body)
        acc == AssetLoop(Get(release, "assets", << >>), NoAssetsYet)
    IN
    IF ~IsNone(climb_count.raised) THEN Raised(climb_count.raised[1])
    ELSE IF ~IsNone(elevation_errors.raised) THEN Raised(elevation_errors.raised[1])
    ELSE IF NoFilesFound(acc) THEN Returned(data)
    ELSE Returned(Store(data, get_region_path(region_from_tag[1]),
                        RegionEntry(tag_name, region_from_tag[1], version[1], release_url,
                                    published_at, climb_count.value,
                                    elevation_errors.value, SortXlsx(acc))))

-----------------------------------------------------------------------------
(* create_summary_stats *)

RECURSIVE SumOver(_, _)
SumOver(f, keys) ==
    IF keys = {} THEN 0
    ELSE LET k == CHOOSE k \in keys : TRUE IN f[k][1] + SumOver(f, keys \ {k})

\* region.get("climb_count") or 0
OrZero(o) == IF IsNone(o) THEN Some(0) ELSE o

\* A region counted because it has the key, whatever its value.
HasDatabaseKey(region) == "database_file" \in DOMAIN region

\* if region.get("database_file")
HasDatabase(region) == Truthy(Get(region, "database_file", None))

\* round(total / (1024 * 1024), 1) in tenths of a megabyte: the division by a
\* power of two is exact in a float, and round() takes the nearest tenth, the
\* even one at a tie.
RoundedTenthsOfMb(total) ==
    LET unit == 1024 * 1024
        q == (total * 10) \div unit
        r == (total * 10) % unit
    IN  IF 2 * r < unit THEN q
        ELSE IF 2 * r > unit THEN q + 1
        ELSE IF q % 2 = 0 THEN q ELSE q + 1

\* sum(...) starts from 0 and adds the values in turn: 0 + None, or n + None,
\* raises TypeError.
create_summary_stats(data) ==
    LET keys == DOMAIN data
        file_count == [k \in keys |-> Get(data[k], "file_count", Some(0))]
        total_size == [k \in keys |-> Get(data[k], "total_size", Some(0))]
        database_size == [k \in keys |-> Get(data[k], "database_size", Some(0))]
        climb_count == [k \in keys |-> OrZero(Get(data[k], "climb_count", None))]
        with_database == {k \in keys : HasDatabase(data[k])}
    IN  IF \E k \in keys : IsNone(file_count[k]) \/ IsNone(total_size[k])
                              \/ IsNone(database_size[k])
        THEN Raised("TypeError")
        ELSE Returned(
               [total_regions |-> Cardinality(keys),
                total_xlsx_files |-> SumOver(file_count, keys),
                total_sqlite_files |-> Cardinality(with_database),
                total_xlsx_size_bytes |-> SumOver(total_size, keys),
                total_sqlite_size_bytes |-> SumOver(database_size, keys),
                total_size_mb_tenths |->
                    RoundedTenthsOfMb(SumOver(total_size, keys) + SumOver(database_size, keys)),
                total_climbs |-> SumOver(climb_count, keys)])

-----------------------------------------------------------------------------
(* fetch_releases *)

PerPage == 100

Min(a, b) == IF a < b THEN a ELSE b

\* What the API answers to page p of per_page releases with status 200.
PageOf(all, p) == SubSeq(all, (p - 1) * PerPage + 1, Min(p * PerPage, Len(all)))

\* if not page_releases: break
EmptyPage(page_releases) == page_releases = << >>

\* The loop without the test for a short page: only an empty page ends it.
ShortPageNeverBreaks(page_releases) == FALSE

\* if len(page_releases) < per_page: break
ShortPage(page_releases) == Len(page_releases) < PerPage

Request(status, count) ==
    [page |-> page, per_page |-> PerPage, status |-> status, count |-> count]

\* One turn of the loop whose request is answered with status 200.
FetchPage ==
    /\ pc = "fetch"
    /\ LET page_releases == PageOf(feed, page) IN
       /\ requests' = Append(requests, Request("200", Len(page_releases)))
       /\ IF EmptyPage(page_releases)
          THEN pc' = "scan" /\ UNCHANGED <<releases, page>>
          ELSE /\ releases' = releases \o page_releases
               /\ IF ShortPage(page_releases)
                  THEN pc' = "scan" /\ UNCHANGED page
                  ELSE pc' = "fetch" /\ page' = page + 1
    /\ UNCHANGED <<feed, pos, index_data, raised, summary, index_json, call>>

\* One turn whose request is answered with another status: logged, break.
FetchHttpError ==
    /\ pc = "fetch"
    /\ requests' = Append(requests, Request("http_error", 0))
    /\ pc' = "scan"
    /\ UNCHANGED <<feed, page, releases, pos, index_data, raised, summary, index_json, call>>

\* One turn whose request raises RequestException: logged, break.
FetchNetworkError ==
    /\ pc = "fetch"
    /\ requests' = Append(requests, Request("network_error", 0))
    /\ pc' = "scan"
    /\ UNCHANGED <<feed, page, releases, pos, index_data, raised, summary, index_json, call>>

-----------------------------------------------------------------------------
(* scan_releases and main *)

\* for release in releases: one iteration; an exception ends the run.
ScanNext ==
    /\ pc = "scan"
    /\ pos < Len(releases)
    /\ LET r == ScanRelease(index_data, releases[pos + 1]) IN
       IF IsNone(r.raised)
       THEN index_data' = r.value /\ pos' = pos + 1 /\ UNCHANGED <<pc, raised>>
       ELSE pc' = "crashed" /\ raised' = r.raised /\ UNCHANGED <<index_data, pos>>
    /\ UNCHANGED <<feed, page, releases, requests, summary, index_json, call>>

\* return index_data
ScanReturn ==
    /\ pc = "scan"
    /\ pos = Len(releases)
    /\ pc' = "summary"
    /\ UNCHANGED <<feed, page, releases, requests, pos, index_data, raised, summary,
                   index_json, call>>

\* "summary": create_summary_stats(index_data)
Summarize ==
    /\ pc = "summary"
    /\ LET r == create_summary_stats(index_data) IN
       IF IsNone(r.raised)
       THEN summary' = Some(r.value) /\ pc' = "write" /\ UNCHANGED raised
       ELSE pc' = "crashed" /\ raised' = r.raised /\ UNCHANGED summary
    /\ UNCHANGED <<feed, page, releases, requests, pos, index_data, index_json, call>>

\* json.dump(final_index, f): index.json is overwritten with the new index.
WriteIndex ==
    /\ pc = "write"
    /\ index_json' = Some([version |-> "2.0.0",
                           generated_at |-> "utcnow().isoformat() + Z",
                           repository |-> "stevehollx/global-road-and-trail-climbs",
                           summary |-> summary[1],
                           regions |-> index_data])
    /\ pc' = "done"
    /\ UNCHANGED <<feed, page, releases, requests, pos, index_data, raised, summary, call>>

-----------------------------------------------------------------------------
(* The inputs: what the releases API may hold *)

MaxAssets == 3     \* assets of a release whose asset list is enumerated
MaxReleases == 2   \* releases of a feed whose releases are enumerated
MaxPages == 2      \* full pages of a long feed

Asset(name, size) ==
    [name |-> name, size |-> size, browser_download_url |-> <<"u","/">> \o name]

XlsxWhole == Asset(<<"H","_","c","l","i","m","b","s",".","x","l","s","x">>, 10)
XlsxPart1 == Asset(<<"H","_","c","l","i","m","b","s","-","1",".","x","l","s","x">>, 11)
XlsxPart2 == Asset(<<"H","_","c","l","i","m","b","s","-","2",".","x","l","s","x">>, 12)
XlsxPart3 == Asset(<<"H","_","c","l","i","m","b","s","-","3",".","x","l","s","x">>, 13)
XlsxPart10 == Asset(<<"H","_","c","l","i","m","b","s","-","1","0",".","x","l","s","x">>, 14)
XlsxOther == Asset(<<"b",".","x","l","s","x">>, 15)
SqliteA == Asset(<<"H","_","c","l","i","m","b","s",".","s","q","l","i","t","e">>, 20)
SqliteB == Asset(<<"x",".","s","q","l","i","t","e">>, 21)
TextFile == Asset(<<"n","o","t","e","s",".","t","x","t">>, 5)

AssetPool ==
    {XlsxWhole, XlsxPart1, XlsxPart2, XlsxPart3, XlsxPart10, XlsxOther,
     SqliteA, SqliteB, TextFile}

\* The asset lists of at most MaxAssets assets, no asset twice.
AssetLists ==
    {a \in UNION {[1..n -> AssetPool] : n \in 0..MaxAssets} :
        \A i, j \in 1..Len(a) : i # j => a[i] # a[j]}

\* A release as the API returns it; "body" is null for a release without text.
Release(tag_name, body, assets) ==
    [tag_name |-> tag_name, html_url |-> <<"h","/">> \o tag_name,
     published_at |-> Some(<<"2","0","2","5","-","0","1","-","0","3","T","1","0",":","0","0",":","0","0","Z">>), body |-> body, assets |-> assets]

\* A release dict that lacks the "body" and "published_at" keys.
BareRelease(tag_name, assets) ==
    [tag_name |-> tag_name, html_url |-> <<"h","/">> \o tag_name, assets |-> assets]

BodyOld == <<"*","*","C","l","i","m","b"," ","C","o","u","n","t",":","*","*"," ","1",",","2","3","4">>
BodyNew == <<"*"," ","C","l","i","m","b","s",":"," ","5","6">>
BodyBoth == <<"*"," ","C","l","i","m","b","s",":"," ","5","6","\n","*","*","C","l","i","m","b"," ","C","o","u","n","t",":","*","*"," ","1",",","2","3","4","\n","*","*","E","l","e","v","a","t","i","o","n"," ","E","r","r","o","r","s",":","*","*"," ","3">>
BodyPlain == <<"n","o","t","e","s">>

TagHawaii == <<"h","a","w","a","i","i","-","v","1",".","0",".","0">>
TagHawaiiUpper == <<"H","a","w","a","i","i","-","v","1",".","1",".","0">>
TagUnknown == <<"n","e","w","-","l","a","n","d","-","v","2",".","0",".","0">>
TagApp == <<"v","3",".","0",".","0">>

\* The releases the short feeds are made of.
SmallReleases ==
    {Release(t, b, a) :
        t \in {TagHawaii, TagHawaiiUpper, TagUnknown, TagApp},
        b \in {None, Some(BodyBoth), Some(BodyPlain)},
        a \in {<<TextFile>>, <<XlsxWhole>>, <<SqliteA, XlsxPart2, XlsxPart1>>}}

SmallFeeds == UNION {[1..n -> SmallReleases] : n \in 0..MaxReleases}

\* One release, every asset list.
AssetFeeds == {<<Release(TagHawaii, Some(BodyOld), a)>> : a \in AssetLists}

\* One release, every kind of body.
BodyFeeds ==
    {<<Release(TagHawaii, b, <<XlsxWhole>>)>> :
        b \in {Some(<<>>), Some(BodyOld), Some(BodyNew), Some(<<"*","*","E","l","e","v","a","t","i","o","n"," ","E","r","r","o","r","s",":","*","*"," ","3">>),
               Some(<<"*","*","C","l","i","m","b"," ","C","o","u","n","t",":","*","*"," ",",">>)}}
    \cup {<<BareRelease(TagHawaii, <<XlsxWhole>>)>>, <<BareRelease(TagHawaii, << >>)>>}

\* The long feeds: around a whole number of pages, their releases taken in
\* turn from a catalog.
LongLengths == {n \in {p * PerPage + d : p \in 0..MaxPages, d \in {-1, 0, 1}} : n >= 0}

Catalogs ==
    { <<Release(TagHawaii, Some(BodyNew), <<XlsxWhole>>),
        Release(TagApp, Some(BodyPlain), << >>),
        Release(TagUnknown, Some(BodyPlain), <<SqliteA>>)>>,
      <<Release(TagHawaii, Some(BodyNew), <<XlsxWhole>>),
        Release(TagApp, None, << >>),
        Release(TagUnknown, None, <<SqliteA>>)>> }

LongFeeds ==
    {[i \in 1..n |-> c[((i - 1) % Len(c)) + 1]] : n \in LongLengths, c \in Catalogs}

Feeds == SmallFeeds \cup AssetFeeds \cup BodyFeeds \cup LongFeeds

-----------------------------------------------------------------------------
(* The run of main() *)

Init ==
    /\ feed \in Feeds
    /\ pc = "fetch"
    /\ page = 1
    /\ releases = << >>
    /\ requests = << >>
    /\ pos = 0
    /\ index_data = << >>
    /\ raised = None
    /\ summary = None
    /\ index_json = None
    /\ call = None

Next ==
    \/ FetchPage
    \/ FetchHttpError
    \/ FetchNetworkError
    \/ ScanNext
    \/ ScanReturn
    \/ Summarize
    \/ WriteIndex

Spec == Init /\ [][Next]_vars

\* The run is not suspended for ever: a turn of the loop of fetch_releases
\* that can be taken is taken.
FetchTurn == FetchPage \/ FetchHttpError \/ FetchNetworkError
FairSpec == Spec /\ WF_vars(FetchTurn)

-----------------------------------------------------------------------------
(* Pagination *)

AllAnswered200 == \A i \in 1..Len(requests) : requests[i].status = "200"

PaginationInv ==
    /\ \A i \in 1..Len(requests) : requests[i].page = i /\ requests[i].per_page = 100
    /\ \A i \in 1..(Len(requests) - 1) :
          requests[i].status = "200" /\ requests[i].count = 100
    /\ (pc # "fetch" /\ AllAnswered200) => releases = feed
    /\ (pc # "fetch" /\ AllAnswered200 /\ Len(feed) >= 100 /\ Len(feed) < 200) =>
          /\ Len(requests) = 2
          /\ releases = SubSeq(feed, 1, 100) \o SubSeq(feed, 101, Len(feed))

\* C1: fetch_releases requests the pages 1, 2, 3, ... in ascending order, 100
\* releases a page; every request but the last was answered with a full page,
\* so nothing is requested after the first page of fewer than 100 releases
\* (an empty one included); a feed of two pages whose second is short takes
\* exactly two requests and yields page 1 followed by page 2; and the loop
\* ends.
C1_PaginationStopsAtShortPage == [](PaginationInv) /\ <>(pc # "fetch")

C1_TwoPageFeedFetched ==
    /\ pc # "fetch"
    /\ Len(requests) = 2
    /\ requests[2].status = "200"
    /\ requests[2].count > 0 /\ requests[2].count < 100
    /\ releases = feed

SomeRequestFailed == \E i \in 1..Len(requests) : requests[i].status # "200"

\* What holds of a failed request whatever the releases are: it is the last
\* request, and the releases of the pages before it are what is returned.
FailureStopsPagination ==
    SomeRequestFailed =>
        /\ pc # "fetch"
        /\ \A i \in 1..(Len(requests) - 1) : requests[i].status = "200"
        /\ releases = SubSeq(feed, 1, (Len(requests) - 1) * 100)

\* C2: when a page request is answered with a status other than 200 or raises
\* a network error, pagination stops at that page with no further request,
\* the releases of the earlier pages are returned, and the run goes on to the
\* end (scan_releases, the summary, index.json) instead of aborting.
C2_FailureKeepsReleasesAndRunCompletes ==
    FailureStopsPagination /\ (SomeRequestFailed => pc # "crashed")

-----------------------------------------------------------------------------
(* The files of a release *)

\* name is stem, "-", one or more digits, ".xlsx": the lengths of the digits.
SplitDigits(name) ==
    {d \in 1..Len(name) :
        /\ EndsWith(name, <<".","x","l","s","x">>)
        /\ Len(name) - 5 - d >= 1
        /\ name[Len(name) - 5 - d] = "-"
        /\ \A i \in (Len(name) - 4 - d)..(Len(name) - 5) : IsDigit(name[i])}

IsSplitFile(name) == SplitDigits(name) # {}

\* The file name with the trailing -N before .xlsx removed.
BaseName(name) ==
    IF IsSplitFile(name)
    THEN LET d == CHOOSE d \in SplitDigits(name) : TRUE
         IN  Prefix(name, Len(name) - 6 - d) \o <<".","x","l","s","x">>
    ELSE name

\* N of a split file, 0 of a file without suffix.
SplitNumber(name) ==
    IF IsSplitFile(name)
    THEN LET d == CHOOSE d \in SplitDigits(name) : TRUE
         IN  ParseInt(SubSeq(name, Len(name) - 4 - d, Len(name) - 5))
    ELSE 0

OrderedByBaseAndIndex(files) ==
    /\ \A i, j \in 1..Len(files) :
          (i < j /\ BaseName(files[i]) = BaseName(files[j])) =>
              /\ SplitNumber(files[i]) <= SplitNumber(files[j])
              /\ \A k \in i..j : BaseName(files[k]) = BaseName(files[i])
    /\ \A i, j \in 1..Len(files) :
          i < j => ~StrLess(BaseName(files[j]), BaseName(files[i]))

\* C3: the files of every region entry are ordered by (base name, split
\* index): the files of one base name are contiguous, the file without suffix
\* first and the -N files after it by ascending N, whatever N is.
C3_FilesOrderedByBaseAndIndex ==
    \A k \in DOMAIN index_data : OrderedByBaseAndIndex(index_data[k].files)

\* The release the loop took last, and whether it made a region entry.
LastRelease == releases[pos]
IsSqlite(asset) == EndsWith(asset.name, <<".","s","q","l","i","t","e">>)
IsXlsx(asset) == EndsWith(asset.name, <<".","x","l","s","x">>)
HasValidTag(release) == Truthy(extract_region_from_tag(release.tag_name)[1])
HasFiles(release) ==
    \E i \in 1..Len(release.assets) : IsXlsx(release.assets[i]) \/ IsSqlite(release.assets[i])
KeyOf(release) == get_region_path(extract_region_from_tag(release.tag_name)[1][1])
LastStored == pos >= 1 /\ pc # "fetch" /\ HasValidTag(LastRelease) /\ HasFiles(LastRelease)
LastEntry == index_data[KeyOf(LastRelease)]

DatabaseIs(entry, asset) ==
    /\ entry.database_file = Some(asset.name)
    /\ entry.database_size = Some(asset.size)
    /\ entry.database_url = Some(asset.browser_download_url)

\* C4 as claimed: the database of a region entry is the first .sqlite asset of
\* its release.
C4_FirstDatabaseWins ==
    LastStored =>
        LET dbs == SelectSeq(LastRelease.assets, IsSqlite)
        IN  dbs # << >> => DatabaseIs(LastEntry, dbs[1])

\* C4 as amended: the database of a region entry is the last .sqlite asset of
\* its release; the ones before it are overwritten without an error.
C4_LastDatabaseWins ==
    LastStored =>
        LET dbs == SelectSeq(LastRelease.assets, IsSqlite)
        IN  /\ KeyOf(LastRelease) \in DOMAIN index_data
            /\ dbs # << >> => DatabaseIs(LastEntry, dbs[Len(dbs)])
            /\ dbs = << >> => LastEntry.database_file = None

C4_TwoDatabasesScanned ==
    /\ LastStored
    /\ Len(SelectSeq(LastRelease.assets, IsSqlite)) >= 2
    /\ raised = None

\* C5: an iteration over a release with a valid region tag and neither an
\* .xlsx nor a .sqlite asset leaves the mapping as it was.
C5_ReleaseWithoutFilesChangesNothing ==
    [][(pc = "scan" /\ pos < Len(releases) /\ HasValidTag(releases[pos + 1])
            /\ ~HasFiles(releases[pos + 1]))
        => index_data' = index_data]_vars

C5_SkippedAfterAnEntry ==
    /\ pc = "scan" /\ pos >= 2
    /\ HasValidTag(LastRelease) /\ ~HasFiles(LastRelease)
    /\ index_data # << >>

-----------------------------------------------------------------------------
(* The text of a release *)

Contains(text, label) == \E i \in 1..Len(text) : StartsAt(text, i, label)

\* The release has no text, or a text with none of the three labels.
HasNoMetadata(release) ==
    \/ "body" \notin DOMAIN release
    \/ IsNone(release.body)
    \/ /\ ~Contains(release.body[1], <<"*","*","C","l","i","m","b"," ","C","o","u","n","t",":","*","*">>)
       /\ ~Contains(release.body[1], <<"*"," ","C","l","i","m","b","s",":">>)
       /\ ~Contains(release.body[1], <<"*","*","E","l","e","v","a","t","i","o","n"," ","E","r","r","o","r","s",":","*","*">>)

\* C9: a region release whose text is missing, null or without any of the
\* patterns raises nothing: its entry is made with climb_count and
\* elevation_errors absent and the loop goes on; and where both climb
\* patterns are present the older one, **Climb Count:**, gives the count.
C9_MissingMetadataIsNoError ==
    /\ (pc = "crashed" /\ pos < Len(releases)) => ~HasNoMetadata(releases[pos + 1])
    /\ (LastStored /\ HasNoMetadata(LastRelease)) =>
          LastEntry.climb_count = None /\ LastEntry.elevation_errors = None
    /\ (LastStored /\ "body" \in DOMAIN LastRelease /\ LastRelease.body = Some(BodyBoth)) =>
          LastEntry.climb_count = Some(1234)

\* C10: has_split_files is true exactly when one of the region's files is a
\* split file: a name that ends with a hyphen, digits and .xlsx.
C10_SplitFlagIffSplitFile ==
    \A k \in DOMAIN index_data :
        index_data[k].has_split_files
            <=> \E i \in 1..Len(index_data[k].files) : IsSplitFile(index_data[k].files[i])

-----------------------------------------------------------------------------
(* Several releases of one region *)

MaxVersions == 3     \* releases of a feed of versions

\* Two versions of one region whose tags differ in letter case, the first
\* with a database and split files, the second with one whole file.
VersionOne == Release(TagHawaii, Some(BodyBoth), <<SqliteA, XlsxPart2, XlsxPart1>>)
VersionTwo == Release(TagHawaiiUpper, Some(BodyPlain), <<XlsxWhole>>)
\* Releases the loop skips: one of the same region without files, one whose
\* tag is no region tag.
VersionWithoutFiles == Release(TagHawaii, Some(BodyPlain), <<TextFile>>)
AppRelease == Release(TagApp, Some(BodyBoth), <<XlsxWhole>>)
\* A release of another region, and a version whose description is null.
OtherRegion == Release(TagUnknown, Some(BodyNew), <<SqliteB>>)
VersionNullBody == Release(TagHawaiiUpper, None, <<XlsxWhole>>)

VersionReleases ==
    {VersionOne, VersionTwo, VersionWithoutFiles, AppRelease, OtherRegion, VersionNullBody}
VersionFeeds == UNION {[1..n -> VersionReleases] : n \in 0..MaxVersions}

InitVersions ==
    /\ feed \in VersionFeeds
    /\ pc = "fetch"
    /\ page = 1
    /\ releases = << >>
    /\ requests = << >>
    /\ pos = 0
    /\ index_data = << >>
    /\ raised = None
    /\ summary = None
    /\ index_json = None
    /\ call = None

SpecVersions == InitVersions /\ [][Next]_vars

\* The entry a release makes on its own, from an empty mapping.
EntryOf(release) == ScanRelease(<< >>, release).value[KeyOf(release)]

\* C11: after the loop has taken any number of releases, the mapping has an
\* entry for exactly the region keys of the releases that were not skipped,
\* and the entry of a key is wholly the entry of the last release of the feed
\* order that resolved to it and was not skipped: no field of an earlier
\* release is kept, and a later skipped release does not change it.
C11_LastReleaseOfAKeyWins ==
    \A kept \in {{r \in {releases[i] : i \in 1..pos} : HasValidTag(r) /\ HasFiles(r)}} :
    \A keys \in {{<<r, KeyOf(r)>> : r \in kept}} :
        /\ DOMAIN index_data = {rk[2] : rk \in keys}
        /\ \A k \in DOMAIN index_data :
              \A positions \in {{i \in 1..pos : <<releases[i], k>> \in keys}} :
              \E last \in positions :
                  /\ \A i \in positions : i <= last
                  /\ index_data[k] = EntryOf(releases[last])

\* The loop has taken the first version, the second version and then a
\* release of the same region without files: the entry is the second
\* version's, without the database of the first.
C11_SecondVersionKept ==
    /\ pos = 3
    /\ releases = <<VersionOne, VersionTwo, VersionWithoutFiles>>
    /\ KeyOf(VersionOne) = KeyOf(VersionTwo)
    /\ KeyOf(VersionTwo) = KeyOf(VersionWithoutFiles)
    /\ EntryOf(VersionOne) # EntryOf(VersionTwo)
    /\ EntryOf(VersionOne).database_file # None
    /\ DOMAIN index_data = {KeyOf(VersionTwo)}
    /\ index_data[KeyOf(VersionTwo)] = EntryOf(VersionTwo)
    /\ index_data[KeyOf(VersionTwo)].database_file = None

-----------------------------------------------------------------------------
(* Single calls of the functions *)

MaxTokenLen == 2     \* characters of the token part of a tag
MaxVersionLen == 5   \* characters of the version part of a tag
MaxRegions == 3      \* regions of a mapping given to create_summary_stats

Call(fn, arg) == [fn |-> fn, arg |-> arg, ret |-> None]

InitCall(calls) ==
    /\ call \in calls
    /\ pc = "call"
    /\ feed = << >> /\ page = 1 /\ releases = << >> /\ requests = << >>
    /\ pos = 0 /\ index_data = << >> /\ raised = None
    /\ summary = None /\ index_json = None

Return(value) ==
    /\ call' = [call EXCEPT !.ret = Some(value)]
    /\ pc' = "returned"
    /\ UNCHANGED <<feed, page, releases, requests, pos, index_data, raised, summary,
                   index_json>>

Strings(alphabet, n) == UNION {[1..k -> alphabet] : k \in 0..n}

Upper(s) == [i \in 1..Len(s) |-> UpperChar(s[i])]

TableKeys ==
    {e[1] : e \in US_STATES_TO_PATH \cup EUROPE_COUNTRIES_TO_PATH \cup OTHER_REGIONS_TO_PATH}

\* The tokens get_region_path is called with: every key of the tables in
\* lower case, capitalised and in upper case, and tokens of no table.
Tokens ==
    TableKeys \cup {Title(k) : k \in TableKeys} \cup {Upper(k) : k \in TableKeys}
    \cup {<<"n","a","r","n","i","a">>, <<"N","a","r","n","i","a">>, <<"N","E","W","-","L","A","N","D">>, <<"n","e","w","-","l","a","n","d">>, <<"x">>, <<>>}

CallGetRegionPath ==
    /\ pc = "call" /\ call.fn = "get_region_path"
    /\ Return(get_region_path(call.arg))

SpecPath == InitCall({Call("get_region_path", t) : t \in Tokens}) /\ [][CallGetRegionPath]_vars

\* The strings extract_region_from_tag is called with: a token, a separator,
\* a version and an end, each well formed or not.
Tags ==
    {t \o s \o v \o e :
        t \in Strings({"a", "-", "v", "\n"}, MaxTokenLen),
        s \in {<<"-","v">>, <<"-","V">>, <<"v">>},
        v \in Strings({"1", "."}, MaxVersionLen),
        e \in {<<>>, <<"\n">>, <<"x">>}}
    \cup {<<"h","a","w","a","i","i","-","v","2",".","2",".","0">>, <<"n","e","w","-","y","o","r","k","-","v","2",".","2",".","0">>, <<"a","-","v","1",".","1",".","1","-","v","2",".","2",".","2">>, <<"v","3",".","0",".","0">>,
          <<"u","s","-","v","i","r","g","i","n","-","i","s","l","a","n","d","s","-","v","1","0",".","2","0",".","3","0">>, <<"a","1","-","v","1",".","2",".","3">>, <<"h","a","w","a","i","i","-","2",".","2",".","0">>}

CallExtractRegionFromTag ==
    /\ pc = "call" /\ call.fn = "extract_region_from_tag"
    /\ Return(extract_region_from_tag(call.arg))

SpecTag ==
    InitCall({Call("extract_region_from_tag", t) : t \in Tags})
    /\ [][CallExtractRegionFromTag]_vars

\* The mappings create_summary_stats is called with: up to MaxRegions regions,
\* each an entry as scan_releases makes it, or one with a value the summary
\* reads missing or None.
FullRegion ==
    [file_count |-> Some(2), total_size |-> Some(100), database_file |-> Some(<<"x",".","s","q","l","i","t","e">>),
     database_size |-> Some(50), climb_count |-> Some(1234)]

PlainRegion ==
    [file_count |-> Some(1), total_size |-> Some(200), database_file |-> None,
     database_size |-> Some(0), climb_count |-> None]

SummaryFields == {"file_count", "total_size", "database_file", "database_size", "climb_count"}

Without(region, field) == [f \in DOMAIN region \ {field} |-> region[f]]
WithNone(region, field) == [region EXCEPT ![field] = None]

RegionPool ==
    {FullRegion, PlainRegion, << >>}
    \cup {Without(FullRegion, f) : f \in SummaryFields}
    \cup {WithNone(FullRegion, f) : f \in SummaryFields}

RegionKeys == <<<<"k","1">>, <<"k","2">>, <<"k","3">>, <<"k","4">>, <<"k","5">>>>

Mappings ==
    UNION {[{RegionKeys[i] : i \in 1..n} -> RegionPool] : n \in 0..MaxRegions}

CallCreateSummaryStats ==
    /\ pc = "call" /\ call.fn = "create_summary_stats"
    /\ Return(create_summary_stats(call.arg))

SpecSummary ==
    InitCall({Call("create_summary_stats", m) : m \in Mappings})
    /\ [][CallCreateSummaryStats]_vars

-----------------------------------------------------------------------------
(* get_region_path *)

ReturnedFrom(fn) == pc = "returned" /\ call.fn = fn
Result == call.ret[1]

\* The value of the first of the three tables that holds the token in lower
\* case, for a token one of them holds.
FromFirstTable(token, path) ==
    LET t == Lower(token) IN
    /\ \A e \in US_STATES_TO_PATH : e[1] = t => path = e[2]
    /\ \A e \in EUROPE_COUNTRIES_TO_PATH :
          (e[1] = t /\ ~InTable(US_STATES_TO_PATH, t)) => path = e[2]
    /\ \A e \in OTHER_REGIONS_TO_PATH :
          (e[1] = t /\ ~InTable(US_STATES_TO_PATH, t)
                    /\ ~InTable(EUROPE_COUNTRIES_TO_PATH, t)) => path = e[2]
    /\ Lower(token) = <<"g","e","o","r","g","i","a">> => path = <<"n","o","r","t","h","-","a","m","e","r","i","c","a","/","u","n","i","t","e","d","-","s","t","a","t","e","s","-","o","f","-","a","m","e","r","i","c","a","/","g","e","o","r","g","i","a">>

InNoTable(token) == Lower(token) \notin TableKeys

-----------------------------------------------------------------------------
(* extract_region_from_tag *)

IsDigits(s) == s # << >> /\ \A i \in 1..Len(s) : IsDigit(s[i])

\* s is X.Y.Z, three runs of digits.
IsXYZ(s) ==
    \E i, j \in 1..Len(s) :
        /\ i < j /\ s[i] = "." /\ s[j] = "."
        /\ IsDigits(SubSeq(s, 1, i - 1))
        /\ IsDigits(SubSeq(s, i + 1, j - 1))
        /\ IsDigits(SubSeq(s, j + 1, Len(s)))

\* The lengths k of a token such that tag is the token, "-v" and X.Y.Z.
TokenLengths(tag) ==
    {k \in 1..Len(tag) :
        /\ k + 2 <= Len(tag) /\ tag[k + 1] = "-" /\ tag[k + 2] = "v"
        /\ IsXYZ(SubSeq(tag, k + 3, Len(tag)))}

\* C7: extract_region_from_tag returns (token, X.Y.Z) for a tag that is a
\* token of at least one character, "-v" and X.Y.Z up to the end of the
\* string, the token being all that precedes that suffix; for every other
\* string it returns (None, None).
C7_TagParsedIffWellFormed ==
    ReturnedFrom("extract_region_from_tag") =>
        /\ \A k \in TokenLengths(call.arg) :
              Result = <<Some(SubSeq(call.arg, 1, k)),
                         Some(SubSeq(call.arg, k + 3, Len(call.arg)))>>
        /\ TokenLengths(call.arg) = {} => Result = <<None, None>>

-----------------------------------------------------------------------------
(* create_summary_stats *)

Field(region, f) == IF f \in DOMAIN region THEN region[f] ELSE None

\* The value of a field in the sums, a missing or None one being 0.
Counted(region, f) == IF IsNone(Field(region, f)) THEN 0 ELSE Field(region, f)[1]

RECURSIVE Total(_, _, _)
Total(mapping, keys, f) ==
    IF keys = {} THEN 0
    ELSE LET k == CHOOSE k \in keys : TRUE
         IN  Counted(mapping[k], f) + Total(mapping, keys \ {k}, f)

TotalsAre(mapping, stats) ==
    /\ stats.total_regions = Cardinality(DOMAIN mapping)
    /\ stats.total_xlsx_files = Total(mapping, DOMAIN mapping, "file_count")
    /\ stats.total_sqlite_files =
          Cardinality({k \in DOMAIN mapping :
                          /\ ~IsNone(Field(mapping[k], "database_file"))
                          /\ Field(mapping[k], "database_file")[1] # << >>})
    /\ stats.total_xlsx_size_bytes = Total(mapping, DOMAIN mapping, "total_size")
    /\ stats.total_sqlite_size_bytes = Total(mapping, DOMAIN mapping, "database_size")
    /\ stats.total_climbs = Total(mapping, DOMAIN mapping, "climb_count")

\* C8 as claimed: the totals are the sums of the fields, a field that is
\* missing or None counting as zero, and nothing is raised.
C8_AbsentCountsAsZero ==
    ReturnedFrom("create_summary_stats") =>
        /\ IsNone(Result.raised)
        /\ TotalsAre(call.arg, Result.value)

\* A file_count, total_size or database_size that is present and None.
HasNoneSummand(mapping) ==
    \E k \in DOMAIN mapping :
        \E f \in {"file_count", "total_size", "database_size"} :
            f \in DOMAIN mapping[k] /\ IsNone(mapping[k][f])

\* C8 as amended: the totals are the sums of the fields, a field whose key is
\* missing counting as zero and a None climb_count counting as zero, and
\* nothing is raised, unless a file_count, total_size or database_size is
\* None: then TypeError is raised.  Three regions of sizes 100, 200 and
\* missing give the total size 300.
C8_MissingCountsAsZero ==
    ReturnedFrom("create_summary_stats") =>
        /\ HasNoneSummand(call.arg) => Result.raised = Some("TypeError")
        /\ ~HasNoneSummand(call.arg) =>
              IsNone(Result.raised) /\ TotalsAre(call.arg, Result.value)
        /\ call.arg = (<<"k","1">> :> FullRegion @@ <<"k","2">> :> PlainRegion
                         @@ <<"k","3">> :> Without(FullRegion, "total_size")) =>
              Result.value.total_xlsx_size_bytes = 300

C8_ThreeRegionsSummed ==
    /\ ReturnedFrom("create_summary_stats")
    /\ call.arg = (<<"k","1">> :> FullRegion @@ <<"k","2">> :> PlainRegion
                     @@ <<"k","3">> :> Without(FullRegion, "total_size"))
    /\ IsNone(Result.raised)
    /\ Result.value.total_xlsx_size_bytes = 300

=============================================================================
